---------------------------- MODULE Spec2Model ----------------------------
(***************************************************************************)
(* GT511C3 fingerprint-scanner pseudo-TA (core/arch/arm/pta/pta_gt511c3.c) *)
(* as a state machine: the UART handle `serial`, the static scratch buffer *)
(* `data_frame` of gt511C3_recv_data, and the three entry points           *)
(* (PTA_GT511C3_INIT, PTA_GT511C3_EXEC, close_session).                    *)
(*                                                                         *)
(* Numbers: a byte is 0..255; an int16_t/uint16_t is its bit pattern       *)
(* 0..65535; a uint32_t is the pair <<hi, lo>> of its 16-bit halves (the   *)
(* checker's integers are 32-bit signed, so 2^32 is not representable).    *)
(* A frame is a sequence of bytes; offset k of the C struct is index k+1.  *)
(***************************************************************************)
EXTENDS Integers, Sequences, FiniteSets, TLC

VARIABLES
    serial,       \* static struct serial_chip *serial: "NULL" or "uart"
    data_frame,   \* static gt511C3_data_frame data_frame: the written prefix
    size_t_bits,  \* width of size_t of the build (32: ARMv7, 64: AArch64)
    panicked,     \* the core executed undefined behaviour and aborted
    session,      \* history: "Open" after an open that returned success,
                  \* "Closed" initially, after a failed open and after close
    last          \* history: what the last entry-point call did

vars == <<serial, data_frame, size_t_bits, panicked, session, last>>

-----------------------------------------------------------------------------
(* Program constants *)

GT511C3_RESET_BAUDRATE == 9600
GT511C3_MAX_BAUDRATE == 115200
GT511C3_MAX_PAYLOAD == 65536

GT511C3_STATUS_DB_IS_EMPTY == 4106
GT511C3_CMD_OPEN == 1
GT511C3_CMD_CLOSE == 2
GT511C3_CMD_GET_ENROLL_COUNT == 32
GT511C3_CMD_GET_TEMPLATE == 112
GT511C3_CMD_START_CODE1 == 85
GT511C3_CMD_START_CODE2 == 170
GT511C3_CMD_DEVICE_ID == 1
GT511C3_RSP_START_CODE1 == 85
GT511C3_RSP_START_CODE2 == 170
GT511C3_RSP_ACK == 48
GT511C3_RSP_NACK == 49
GT511C3_DATA_START_CODE1 == 90
GT511C3_DATA_START_CODE2 == 165

\* sizeof(gt511C3_command), sizeof(gt511C3_response): packed, 1+1+2+4+2+2
SizeofCommand == 12
SizeofResponse == 12
\* sizeof(gt511C3_data): packed, 1+1+2+1
SizeofData == 5
\* sizeof(GT511C3_DeviceInfo) (pta_gt511c3.h): two 32-bit words and a
\* 16-byte serial number
SizeofDeviceInfo == 24

TEE_SUCCESS == "TEE_SUCCESS"
TEE_ERROR_GENERIC == "TEE_ERROR_GENERIC"
TEE_ERROR_ACCESS_DENIED == "TEE_ERROR_ACCESS_DENIED"
TEE_ERROR_CANCEL == "TEE_ERROR_CANCEL"
TEE_ERROR_BAD_PARAMETERS == "TEE_ERROR_BAD_PARAMETERS"
TEE_ERROR_BAD_STATE == "TEE_ERROR_BAD_STATE"
TEE_ERROR_NOT_SUPPORTED == "TEE_ERROR_NOT_SUPPORTED"
TEE_ERROR_NO_DATA == "TEE_ERROR_NO_DATA"
TEE_ERROR_OUT_OF_MEMORY == "TEE_ERROR_OUT_OF_MEMORY"
TEE_ERROR_BUSY == "TEE_ERROR_BUSY"
TEE_ERROR_COMMUNICATION == "TEE_ERROR_COMMUNICATION"
TEE_ERROR_SHORT_BUFFER == "TEE_ERROR_SHORT_BUFFER"

-----------------------------------------------------------------------------
(* Fixed-width arithmetic *)

\* 2^16: the number of bit patterns of an int16_t / uint16_t
W16 == 2 ^ 16

U32(hi, lo) == <<hi, lo>>
Hi(u) == u[1]
Lo(u) == u[2]

\* the four bytes of a uint32_t in memory (little-endian)
U32Bytes(u) == <<Lo(u) % 256, Lo(u) \div 256, Hi(u) % 256, Hi(u) \div 256>>
\* the two bytes of a 16-bit value in memory (little-endian)
U16Bytes(v) == <<v % 256, v \div 256>>

\* the uint32_t stored at offset off of msg
ReadU32(msg, off) ==
    U32(msg[off + 3] + 256 * msg[off + 4], msg[off + 1] + 256 * msg[off + 2])
\* the 16-bit value stored at offset off of msg
ReadU16(msg, off) == msg[off + 1] + 256 * msg[off + 2]

\* size_t addition of a small constant k: wraps at 2^32 on a 32-bit build; on a
\* 64-bit build the sum of a zero-extended uint32_t and k never wraps (the
\* high half then ranges up to 2^16)
AddSizeT(u, k, bits) ==
    LET sum == Lo(u) + k
        hi0 == Hi(u) + (sum \div W16)
    IN  U32(IF bits = 32 THEN hi0 % W16 ELSE hi0, sum % W16)

\* GT511C3_DATA_FRAME_SIZE(payload_size) ==
\*   sizeof(gt511C3_data) - sizeof(uint8_t) + (payload_size) + sizeof(int16_t)
GT511C3_DATA_FRAME_SIZE(payload_size, bits) ==
    AddSizeT(AddSizeT(payload_size, SizeofData - 1, bits), 2, bits)

\* recv_bytes > sizeof(data_frame), sizeof(data_frame) = GT511C3_MAX_PAYLOAD
ExceedsDataFrame(recv_bytes) ==
    Hi(recv_bytes) > GT511C3_MAX_PAYLOAD \div W16
    \/ (Hi(recv_bytes) = GT511C3_MAX_PAYLOAD \div W16
        /\ Lo(recv_bytes) > GT511C3_MAX_PAYLOAD % W16)

-----------------------------------------------------------------------------
(* Memory *)

\* byte at offset k of a buffer of capacity cap whose written prefix is m: the
\* unwritten rest of the zero-initialised static buffer reads 0, and a read
\* past the capacity is out of bounds and yields the arbitrary byte oob
At(m, k, cap, oob) ==
    IF k < Len(m) THEN m[k + 1] ELSE IF k < cap THEN 0 ELSE oob

\* buffer m after bytes rx were stored at offsets 0 .. Len(rx)-1
Store(m, rx) ==
    [i \in 1..(IF Len(m) > Len(rx) THEN Len(m) ELSE Len(rx)) |->
        IF i <= Len(rx) THEN rx[i] ELSE m[i]]

-----------------------------------------------------------------------------
(* gt511C3_to_tee *)

\* gt511C3_to_tee with the fault of switching on the low 16 bits only
gt511C3_to_tee_lo16(status) ==
    CASE Lo(status) = 0 -> TEE_SUCCESS
      [] Lo(status) \in {4097, 4102} -> TEE_ERROR_COMMUNICATION
      [] Lo(status) \in {4098, 4113} -> TEE_ERROR_BAD_PARAMETERS
      [] Lo(status) \in {4099, 4100, 4107, 4108, 4109, 4111, 4114}
            -> TEE_ERROR_BAD_STATE
      [] Lo(status) = 4101 -> TEE_ERROR_BUSY
      [] Lo(status) \in {4103, 4104} -> TEE_ERROR_ACCESS_DENIED
      [] Lo(status) = 4105 -> TEE_ERROR_OUT_OF_MEMORY
      [] Lo(status) = GT511C3_STATUS_DB_IS_EMPTY -> TEE_ERROR_NO_DATA
      [] Lo(status) = 4110 -> TEE_ERROR_NOT_SUPPORTED
      [] Lo(status) = 4112 -> TEE_ERROR_CANCEL
      [] OTHER -> TEE_ERROR_GENERIC

gt511C3_to_tee(status) ==
    IF Hi(status) # 0 THEN TEE_ERROR_GENERIC
    ELSE CASE Lo(status) = 0 -> TEE_SUCCESS
           [] Lo(status) = 4097 -> TEE_ERROR_COMMUNICATION
           [] Lo(status) = 4098 -> TEE_ERROR_BAD_PARAMETERS
           [] Lo(status) = 4099 -> TEE_ERROR_BAD_STATE
           [] Lo(status) = 4100 -> TEE_ERROR_BAD_STATE
           [] Lo(status) = 4101 -> TEE_ERROR_BUSY
           [] Lo(status) = 4102 -> TEE_ERROR_COMMUNICATION
           [] Lo(status) = 4103 -> TEE_ERROR_ACCESS_DENIED
           [] Lo(status) = 4104 -> TEE_ERROR_ACCESS_DENIED
           [] Lo(status) = 4105 -> TEE_ERROR_OUT_OF_MEMORY
           [] Lo(status) = GT511C3_STATUS_DB_IS_EMPTY -> TEE_ERROR_NO_DATA
           [] Lo(status) = 4107 -> TEE_ERROR_BAD_STATE
           [] Lo(status) = 4108 -> TEE_ERROR_BAD_STATE
           [] Lo(status) = 4109 -> TEE_ERROR_BAD_STATE
           [] Lo(status) = 4110 -> TEE_ERROR_NOT_SUPPORTED
           [] Lo(status) = 4111 -> TEE_ERROR_BAD_STATE
           [] Lo(status) = 4112 -> TEE_ERROR_CANCEL
           [] Lo(status) = 4113 -> TEE_ERROR_BAD_PARAMETERS
           [] Lo(status) = 4114 -> TEE_ERROR_BAD_STATE
           [] Lo(status) = 65535 -> TEE_ERROR_GENERIC
           [] OTHER -> TEE_ERROR_GENERIC

-----------------------------------------------------------------------------
(* gt511C3_checksum *)

\* cs = 0; for (i = 0; i < length; ++i) cs += msg[i];  with cs an int16_t.
\* Offsets past the written prefix of msg hold 0 and add nothing, so the sum
\* stops at the end of the prefix.
RECURSIVE ChecksumFrom(_, _, _, _)
ChecksumFrom(msg, i, length, cs) ==
    IF i >= length \/ i >= Len(msg) THEN cs
    ELSE ChecksumFrom(msg, i + 1, length, (cs + msg[i + 1]) % W16)

\* the same loop run in stretches of 32 iterations, the accumulator handed
\* from one stretch to the next (this bounds the depth of the evaluation, not
\* the loop)
RECURSIVE ChecksumStretches(_, _, _, _)
ChecksumStretches(msg, i, length, cs) ==
    IF cs < 0 \/ i >= length \/ i >= Len(msg) THEN cs
    ELSE ChecksumStretches(msg, i + 32, length,
                           ChecksumFrom(msg, i,
                                        IF i + 32 < length THEN i + 32
                                        ELSE length, cs))

\* gt511C3_checksum with the fault of dropping the accumulator's sign bit
gt511C3_checksum_15bit(msg, length) ==
    ChecksumStretches(msg, 0, length, 0) % 32768

gt511C3_checksum(msg, length) == ChecksumStretches(msg, 0, length, 0)

-----------------------------------------------------------------------------
(* gt511C3_recv *)

\* gt511C3_recv with the fault of comparing the checksums in 8 bits only
gt511C3_recv_cmp8(msg, cap, rx, oob) ==
    LET Compare(m, cs_length) ==
            [msg |-> m,
             status |-> IF At(m, cs_length, cap, oob)
                             # gt511C3_checksum(m, cs_length) % 256
                        THEN TEE_ERROR_COMMUNICATION
                        ELSE TEE_SUCCESS]
    IN  Compare(Store(msg, rx), (Len(rx) - 2) % W16)

\* msg: the receive buffer (written prefix), of capacity cap; rx: the bytes
\* getchar() returns, one per iteration, Len(rx) = *length < 2^16.
\* Yields the buffer afterwards and the status.
\* Compare: m is the buffer after the loop, cs_length = i - sizeof(msg_cs)
\* in a uint16_t; msg_cs is the int16_t read at msg + cs_length.
gt511C3_recv(msg, cap, rx, oob) ==
    LET Compare(m, cs_length) ==
            [msg |-> m,
             status |-> IF ((At(m, cs_length + 1, cap, oob) * 256)
                              + At(m, cs_length, cap, oob)) % W16
                             # gt511C3_checksum(m, cs_length)
                        THEN TEE_ERROR_COMMUNICATION
                        ELSE TEE_SUCCESS]
    IN  Compare(Store(msg, rx), (Len(rx) - 2) % W16)

-----------------------------------------------------------------------------
(* gt511C3_recv_response *)

\* rx: the sizeof(gt511C3_response) bytes the transport delivers
gt511C3_recv_response(rx) ==
    LET Decode(r) ==
            [rsp |-> r.msg,
             status |->
                 IF r.status # TEE_SUCCESS THEN r.status
                 ELSE IF r.msg[1] # GT511C3_RSP_START_CODE1
                         \/ r.msg[2] # GT511C3_RSP_START_CODE2
                 THEN TEE_ERROR_COMMUNICATION
                 ELSE IF ReadU16(r.msg, 8) = GT511C3_RSP_NACK
                 THEN gt511C3_to_tee(ReadU32(r.msg, 4))
                 ELSE TEE_SUCCESS]
    IN  Decode(gt511C3_recv(<<>>, SizeofResponse, rx, 0))

-----------------------------------------------------------------------------
(* gt511C3_recv_data *)

\* number of bytes gt511C3_recv_data reads for a payload of `length` bytes:
\* none when the size guard rejects the request
RecvBytes(length, bits) ==
    LET recv_bytes == GT511C3_DATA_FRAME_SIZE(length, bits)
    IN  IF ExceedsDataFrame(recv_bytes) THEN 0
        ELSE Hi(recv_bytes) * W16 + Lo(recv_bytes)

\* the payload memcpy(data, data_frame.frame.data, length) stores
Payload(frame, length) ==
    [i \in 1..Lo(length) |-> At(frame, 3 + i, GT511C3_MAX_PAYLOAD, 0)]

\* gt511C3_recv_data with the fault of comparing start_code1 only
gt511C3_recv_data_sc1(frame, data, length, bits, rx, oob) ==
    LET Copy(recv_bytes, r) ==
            IF ExceedsDataFrame(recv_bytes)
            THEN [status |-> TEE_ERROR_SHORT_BUFFER, frame |-> frame,
                  data |-> data, rx |-> 0, ub |-> FALSE]
            ELSE IF r.status # TEE_SUCCESS
            THEN [status |-> r.status, frame |-> r.msg, data |-> data,
                  rx |-> Len(rx), ub |-> FALSE]
            ELSE IF At(r.msg, 0, GT511C3_MAX_PAYLOAD, 0)
                        # GT511C3_DATA_START_CODE1
            THEN [status |-> TEE_ERROR_COMMUNICATION, frame |-> r.msg,
                  data |-> data, rx |-> Len(rx), ub |-> FALSE]
            ELSE IF Hi(length) # 0
            THEN [status |-> TEE_SUCCESS, frame |-> r.msg, data |-> data,
                  rx |-> Len(rx), ub |-> TRUE]
            ELSE [status |-> TEE_SUCCESS, frame |-> r.msg,
                  data |-> Payload(r.msg, length), rx |-> Len(rx),
                  ub |-> FALSE]
    IN  Copy(GT511C3_DATA_FRAME_SIZE(length, bits),
             gt511C3_recv(frame, GT511C3_MAX_PAYLOAD, rx, oob))

\* gt511C3_recv_data with the fault of copying the payload before the start
\* codes are tested
gt511C3_recv_data_copy_first(frame, data, length, bits, rx, oob) ==
    LET Copy(recv_bytes, r) ==
            IF ExceedsDataFrame(recv_bytes)
            THEN [status |-> TEE_ERROR_SHORT_BUFFER, frame |-> frame,
                  data |-> data, rx |-> 0, ub |-> FALSE]
            ELSE IF r.status # TEE_SUCCESS
            THEN [status |-> r.status, frame |-> r.msg, data |-> data,
                  rx |-> Len(rx), ub |-> FALSE]
            ELSE IF Hi(length) # 0
            THEN [status |-> TEE_SUCCESS, frame |-> r.msg, data |-> data,
                  rx |-> Len(rx), ub |-> TRUE]
            ELSE [status |->
                      IF At(r.msg, 0, GT511C3_MAX_PAYLOAD, 0)
                              # GT511C3_DATA_START_CODE1
                          \/ At(r.msg, 1, GT511C3_MAX_PAYLOAD, 0)
                              # GT511C3_DATA_START_CODE2
                      THEN TEE_ERROR_COMMUNICATION ELSE TEE_SUCCESS,
                  frame |-> r.msg,
                  data |-> Payload(r.msg, length), rx |-> Len(rx),
                  ub |-> FALSE]
    IN  Copy(GT511C3_DATA_FRAME_SIZE(length, bits),
             gt511C3_recv(frame, GT511C3_MAX_PAYLOAD, rx, oob))

\* frame: the static data_frame before the call; data: the caller's buffer
\* before the call; rx: the RecvBytes(length, bits) bytes the transport
\* delivers.  ub: the memcpy runs past the end of data_frame (and of the
\* address space), which only a wrapped frame size lets through.
gt511C3_recv_data(frame, data, length, bits, rx, oob) ==
    LET Copy(recv_bytes, r) ==
            IF ExceedsDataFrame(recv_bytes)
            THEN [status |-> TEE_ERROR_SHORT_BUFFER, frame |-> frame,
                  data |-> data, rx |-> 0, ub |-> FALSE]
            ELSE IF r.status # TEE_SUCCESS
            THEN [status |-> r.status, frame |-> r.msg, data |-> data,
                  rx |-> Len(rx), ub |-> FALSE]
            ELSE IF At(r.msg, 0, GT511C3_MAX_PAYLOAD, 0)
                        # GT511C3_DATA_START_CODE1
                    \/ At(r.msg, 1, GT511C3_MAX_PAYLOAD, 0)
                        # GT511C3_DATA_START_CODE2
            THEN [status |-> TEE_ERROR_COMMUNICATION, frame |-> r.msg,
                  data |-> data, rx |-> Len(rx), ub |-> FALSE]
            ELSE IF Hi(length) # 0
            THEN [status |-> TEE_SUCCESS, frame |-> r.msg, data |-> data,
                  rx |-> Len(rx), ub |-> TRUE]
            ELSE [status |-> TEE_SUCCESS, frame |-> r.msg,
                  data |-> Payload(r.msg, length), rx |-> Len(rx),
                  ub |-> FALSE]
    IN  Copy(GT511C3_DATA_FRAME_SIZE(length, bits),
             gt511C3_recv(frame, GT511C3_MAX_PAYLOAD, rx, oob))

-----------------------------------------------------------------------------
(* Bounds of the model *)

\* largest payload length an execute call asks for in the session model
MaxPayloadLen == 4

\* longest byte sequence of the checksum model
MaxPieceLen == 260

-----------------------------------------------------------------------------
(* The peripheral and the callers: the inputs the entry points are run on *)

\* the sum of the bytes bytes[lo] .. bytes[hi], each an unsigned 8-bit value,
\* modulo 2^16
\* (WireSum: the checksum the peripheral appends to a frame, "byte
\* addition": the sum of the bytes before it, in 16 bits)
RECURSIVE ByteSum(_, _, _)
ByteSum(bytes, lo, hi) ==
    IF lo > hi THEN 0
    ELSE IF lo = hi THEN bytes[lo]
    ELSE (ByteSum(bytes, lo, (lo + hi) \div 2)
          + ByteSum(bytes, (lo + hi) \div 2 + 1, hi)) % W16

WireSum(bytes) == ByteSum(bytes, 1, Len(bytes))

\* how a frame the peripheral sends can be damaged
Integrity == {"ok", "badcs", "badsc1", "badsc2"}

\* a response frame: start codes, device id, parameter, response kind and
\* the checksum of the ten bytes before it, plus csDelta
ResponseFrame(sc1, sc2, parameter, response, csDelta) ==
    LET body == <<sc1, sc2>> \o U16Bytes(1) \o U32Bytes(parameter)
                  \o U16Bytes(response)
    IN  body \o U16Bytes((WireSum(body) + csDelta) % W16)

ResponseOf(v, parameter, response) ==
    ResponseFrame(IF v = "badsc1" THEN GT511C3_DATA_START_CODE1
                                  ELSE GT511C3_RSP_START_CODE1,
                  IF v = "badsc2" THEN GT511C3_DATA_START_CODE2
                                  ELSE GT511C3_RSP_START_CODE2,
                  parameter, response, IF v = "badcs" THEN 1 ELSE 0)

\* a data frame of n payload bytes base+1, base+2, ...
DataFrame(sc1, sc2, n, base, csDelta) ==
    LET body == <<sc1, sc2>> \o U16Bytes(1)
                  \o [i \in 1..n |-> (base + i) % 256]
    IN  body \o U16Bytes((WireSum(body) + csDelta) % W16)

DataOf(v, n, base) ==
    DataFrame(IF v = "badsc1" THEN GT511C3_RSP_START_CODE1
                              ELSE GT511C3_DATA_START_CODE1,
              IF v = "badsc2" THEN GT511C3_RSP_START_CODE2
                              ELSE GT511C3_DATA_START_CODE2,
              n, base, IF v = "badcs" THEN 1 ELSE 0)

\* response parameters the peripheral answers with in the session model
RspParams == {U32(0, 0), U32(0, GT511C3_STATUS_DB_IS_EMPTY)}
RspKinds == {GT511C3_RSP_ACK, GT511C3_RSP_NACK}
RspFrames == {ResponseOf(v, p, k) : v \in Integrity, p \in RspParams,
                                    k \in RspKinds}

\* the n bytes the transport delivers to a data reception of n bytes
\* (fewer than 6 bytes are read only when the frame size wrapped; the first
\* short read below passes the checksum and start-code tests, the second fails)
DataFrames(n) ==
    IF n < 6 THEN {SubSeq(<<GT511C3_DATA_START_CODE1, GT511C3_DATA_START_CODE2,
                            1, 0, 1>>, 1, n),
                   SubSeq(<<GT511C3_DATA_START_CODE1, GT511C3_DATA_START_CODE2,
                            1, 0, 0>>, 1, n)}
    ELSE {DataOf(v, n - 6, 16) : v \in Integrity}

\* what the caller's output buffer of `length` bytes holds before the call.
\* A buffer too long for any data frame is never copied to unless the size
\* guard is passed by wrapping (the ub outcome), so its bytes are left out.
CallerBuf(length) ==
    IF Hi(length) = 0 /\ Lo(length) + 6 <= GT511C3_MAX_PAYLOAD
    THEN [i \in 1..Lo(length) |-> 238]
    ELSE <<>>

\* device configurations: uart_base_pa and baud_rate
Configs == [uart_base_pa : {0, 35553280}, baud_rate : {9600, 230400}]

ExecCmds == {GT511C3_CMD_GET_ENROLL_COUNT, GT511C3_CMD_GET_TEMPLATE}
ExecParams == {U32(0, 0)}
\* payload lengths of execute calls: none, a short reply, the first length
\* whose frame exceeds the buffer, and two lengths within 6 of 2^32
ExecLens == {U32(0, 0), U32(0, MaxPayloadLen),
             U32(0, GT511C3_MAX_PAYLOAD - 5),
             U32(W16 - 1, W16 - 6), U32(W16 - 1, W16 - 1)}

\* DataFrames, evaluated once for the frame sizes of the session model
DataSizes == {RecvBytes(l, b) : l \in ExecLens \cup {U32(0, SizeofDeviceInfo)},
                               b \in {32, 64}}
DataFramesTable == [n \in DataSizes |-> DataFrames(n)]

\* what a call that dereferences the null `serial` can come back with, when
\* the core does not abort
UBStatuses == {TEE_SUCCESS, TEE_ERROR_BAD_STATE, TEE_ERROR_GENERIC}

-----------------------------------------------------------------------------
(* GT511C3_INIT_COMMAND and gt511C3_send_cmd *)

\* memset 0, start codes, device id, command code (an int16_t); the caller
\* assigns cmd.parameter afterwards
GT511C3_INIT_COMMAND(cmd_code, parameter) ==
    <<GT511C3_CMD_START_CODE1, GT511C3_CMD_START_CODE2>>
    \o U16Bytes(GT511C3_CMD_DEVICE_ID)
    \o U32Bytes(parameter)
    \o U16Bytes(cmd_code % W16)
    \o <<0, 0>>

\* CommandBytes with the fault of summing the bytes before the command field
\* only
CommandBytes_to_command(cmd) ==
    SubSeq(cmd, 1, 10) \o U16Bytes(gt511C3_checksum(cmd, 8))

\* cmd->checksum = gt511C3_checksum(cmd, FIELD_OFFSET(gt511C3_command, checksum))
CommandBytes(cmd) ==
    SubSeq(cmd, 1, 10) \o U16Bytes(gt511C3_checksum(cmd, 10))

\* puts the 12 command bytes, then receives the response
gt511C3_send_cmd(cmd, rx) ==
    LET Sent(r) == [tx |-> CommandBytes(cmd), rsp |-> r.rsp,
                    status |-> r.status]
    IN  Sent(gt511C3_recv_response(rx))

-----------------------------------------------------------------------------
(* gt511C3_init *)

\* gt511C3_init with the fault of configuring the target baud rate on reset
gt511C3_init_target_baud(device_config, reset, initOk) ==
    LET baud_rate == device_config.baud_rate
    IN  IF baud_rate > GT511C3_MAX_BAUDRATE
        THEN [status |-> TEE_ERROR_BAD_PARAMETERS, set |-> FALSE, inits |-> <<>>]
        ELSE IF reset /\ device_config.uart_base_pa = 0
        THEN [status |-> TEE_ERROR_BAD_PARAMETERS, set |-> FALSE, inits |-> <<>>]
        ELSE IF ~initOk
        THEN [status |-> TEE_ERROR_BAD_PARAMETERS, set |-> FALSE,
              inits |-> <<baud_rate>>]
        ELSE [status |-> TEE_SUCCESS, set |-> TRUE, inits |-> <<baud_rate>>]

\* initOk: whether imx_uart_init_ex succeeds; inits: the baud rates
\* imx_uart_init_ex was called with
gt511C3_init(device_config, reset, initOk) ==
    LET baud_rate == IF reset THEN GT511C3_RESET_BAUDRATE
                     ELSE device_config.baud_rate
    IN  IF baud_rate > GT511C3_MAX_BAUDRATE
        THEN [status |-> TEE_ERROR_BAD_PARAMETERS, set |-> FALSE, inits |-> <<>>]
        ELSE IF reset /\ device_config.uart_base_pa = 0
        THEN [status |-> TEE_ERROR_BAD_PARAMETERS, set |-> FALSE, inits |-> <<>>]
        ELSE IF ~initOk
        THEN [status |-> TEE_ERROR_BAD_PARAMETERS, set |-> FALSE,
              inits |-> <<baud_rate>>]
        ELSE [status |-> TEE_SUCCESS, set |-> TRUE, inits |-> <<baud_rate>>]

-----------------------------------------------------------------------------
(* The record of a call *)

NoCall ==
    [op |-> "none", status |-> "NONE", ret |-> "NONE", sendStatus |-> "NONE",
     tx |-> <<>>, rsp |-> <<>>, rx |-> 0, length |-> U32(0, 0),
     want_info |-> FALSE, data |-> <<>>, dataRead |-> FALSE,
     sessionBefore |-> "Closed", serialBefore |-> "NULL", ub |-> FALSE,
     inits |-> <<>>, typesOk |-> TRUE, sentRsp |-> <<>>,
     arg |-> <<>>, out |-> <<>>]

-----------------------------------------------------------------------------
(* gt511c3_open, under gt511c3_cmd_initialize *)

\* the serial handle after gt511c3_open's call of gt511C3_init
SerialAfterInit(old, i) == IF i.set THEN "uart" ELSE old

\* whether gt511c3_open goes on to gt511C3_send_cmd
OpenSends(device_config, initOk) ==
    gt511C3_init(device_config, TRUE, initOk).status = TEE_SUCCESS

\* whether gt511c3_open goes on to gt511C3_recv_data
OpenReadsData(want_info, rx) ==
    want_info /\ gt511C3_recv_response(rx).status = TEE_SUCCESS

gt511c3_open(device_config, want_info, initOk, rx, drx) ==
    LET i == gt511C3_init(device_config, TRUE, initOk)
        base == [NoCall EXCEPT !.op = "open", !.want_info = want_info,
                               !.sessionBefore = session,
                               !.serialBefore = serial,
                               !.inits = i.inits,
                               !.arg = <<device_config.uart_base_pa,
                                         device_config.baud_rate>>,
                               !.length = U32(0, SizeofDeviceInfo),
                               !.data = IF want_info
                                        THEN CallerBuf(U32(0, SizeofDeviceInfo))
                                        ELSE <<>>]
        Opened(s, d) ==
            IF i.status # TEE_SUCCESS
            THEN [serial |-> SerialAfterInit(serial, i), frame |-> data_frame,
                  rec |-> [base EXCEPT !.status = i.status, !.ret = i.status]]
            ELSE IF s.status # TEE_SUCCESS \/ ~want_info
            THEN [serial |-> SerialAfterInit(serial, i), frame |-> data_frame,
                  rec |-> [base EXCEPT !.status = s.status, !.ret = s.status,
                                       !.sendStatus = s.status, !.tx = s.tx,
                                       !.rsp = s.rsp, !.rx = SizeofResponse]]
            ELSE [serial |-> SerialAfterInit(serial, i), frame |-> d.frame,
                  rec |-> [base EXCEPT !.status = d.status, !.ret = d.status,
                                       !.sendStatus = s.status, !.tx = s.tx,
                                       !.rsp = s.rsp,
                                       !.rx = SizeofResponse + d.rx,
                                       !.data = d.data, !.dataRead = TRUE,
                                       !.ub = d.ub]]
    IN  Opened(gt511C3_send_cmd(
                   GT511C3_INIT_COMMAND(GT511C3_CMD_OPEN,
                                        IF want_info THEN U32(0, 1)
                                        ELSE U32(0, 0)), rx),
               gt511C3_recv_data(data_frame,
                                 CallerBuf(U32(0, SizeofDeviceInfo)),
                                 U32(0, SizeofDeviceInfo), size_t_bits, drx, 0))

\* PTA_GT511C3_INIT: gt511c3_cmd_initialize
Initialize ==
    /\ ~panicked
    /\ last.op = "none"
    /\ \/ \* exp_pt != param_types
          /\ last' = [NoCall EXCEPT !.op = "open", !.typesOk = FALSE,
                                    !.status = TEE_ERROR_BAD_PARAMETERS,
                                    !.ret = TEE_ERROR_BAD_PARAMETERS,
                                    !.sessionBefore = session,
                                    !.serialBefore = serial]
          /\ session' = "Closed"
          /\ UNCHANGED <<serial, data_frame, size_t_bits, panicked>>
       \/ \E device_config \in Configs, want_info \in BOOLEAN,
             initOk \in BOOLEAN :
          \E rx \in IF OpenSends(device_config, initOk)
                    THEN RspFrames ELSE {<<>>} :
          \E drx \in IF OpenSends(device_config, initOk)
                        /\ OpenReadsData(want_info, rx)
                     THEN DataFramesTable[RecvBytes(U32(0, SizeofDeviceInfo),
                                                    size_t_bits)]
                     ELSE {<<>>} :
          \E o \in {gt511c3_open(device_config, want_info, initOk, rx, drx)} :
             /\ last' = o.rec
             /\ serial' = o.serial
             /\ data_frame' = o.frame
             /\ session' = IF o.rec.status = TEE_SUCCESS
                           THEN "Open" ELSE "Closed"
             /\ panicked' = o.rec.ub
             /\ UNCHANGED size_t_bits

-----------------------------------------------------------------------------
(* gt511c3_cmd_exec *)

\* whether gt511c3_cmd_exec goes on to gt511C3_recv_data
ExecReadsData(rx) == gt511C3_recv_response(rx).status = TEE_SUCCESS

\* rec.out: params[0].value.a and params[0].value.b as the caller finds them
\* after the call; the function reads them and never assigns them, and the
\* response of gt511C3_send_cmd(&cmd, NULL) stays in its local_rsp
gt511c3_cmd_exec(cmd_code, parameter, length, rx, drx, oob) ==
    LET Executed(s, d) ==
            IF s.status # TEE_SUCCESS
            THEN [frame |-> data_frame,
                  rec |-> [NoCall EXCEPT !.op = "exec", !.length = length,
                                         !.out = <<U32(cmd_code \div W16,
                                                       cmd_code % W16),
                                                   parameter>>,
                                         !.sessionBefore = session,
                                         !.serialBefore = serial,
                                         !.data = CallerBuf(length),
                                         !.sendStatus = s.status,
                                         !.tx = s.tx, !.rsp = s.rsp,
                                         !.status = s.status,
                                         !.ret = s.status,
                                         !.rx = SizeofResponse]]
            ELSE [frame |-> d.frame,
                  rec |-> [NoCall EXCEPT !.op = "exec", !.length = length,
                                         !.out = <<U32(cmd_code \div W16,
                                                       cmd_code % W16),
                                                   parameter>>,
                                         !.sessionBefore = session,
                                         !.serialBefore = serial,
                                         !.sendStatus = s.status,
                                         !.tx = s.tx, !.rsp = s.rsp,
                                         !.status = d.status,
                                         !.ret = d.status,
                                         !.rx = SizeofResponse + d.rx,
                                         !.data = d.data, !.dataRead = TRUE,
                                         !.ub = d.ub]]
    IN  Executed(gt511C3_send_cmd(GT511C3_INIT_COMMAND(cmd_code, parameter),
                                  rx),
                 gt511C3_recv_data(data_frame, CallerBuf(length), length,
                                   size_t_bits, drx, oob))

\* a call that reaches serial->ops->putc with serial == NULL: the core aborts
\* on the null dereference, or (page 0 mapped) comes back with anything
NullSerial(op) ==
    /\ serial = "NULL"
    /\ \/ /\ panicked' = TRUE
          /\ last' = [NoCall EXCEPT !.op = op, !.ub = TRUE,
                                    !.sessionBefore = session,
                                    !.serialBefore = serial]
       \/ \E st \in UBStatuses :
          /\ panicked' = FALSE
          /\ last' = [NoCall EXCEPT !.op = op, !.ub = TRUE, !.status = st,
                                    !.ret = IF op = "close" THEN "void" ELSE st,
                                    !.sessionBefore = session,
                                    !.serialBefore = serial]
    /\ UNCHANGED <<serial, data_frame, size_t_bits>>

\* PTA_GT511C3_EXEC: gt511c3_cmd_exec
Execute ==
    /\ ~panicked
    /\ last.op = "none"
    /\ \/ \* exp_pt != param_types
          /\ last' = [NoCall EXCEPT !.op = "exec", !.typesOk = FALSE,
                                    !.status = TEE_ERROR_BAD_PARAMETERS,
                                    !.ret = TEE_ERROR_BAD_PARAMETERS,
                                    !.sessionBefore = session,
                                    !.serialBefore = serial]
          /\ UNCHANGED <<serial, data_frame, size_t_bits, panicked, session>>
       \/ /\ NullSerial("exec")
          /\ UNCHANGED session
       \/ /\ serial # "NULL"
          /\ \E cmd_code \in ExecCmds, parameter \in ExecParams,
                length \in ExecLens, rx \in RspFrames :
             \E drx \in IF ExecReadsData(rx)
                        THEN DataFramesTable[RecvBytes(length, size_t_bits)]
                        ELSE {<<>>} :
                \E e \in {gt511c3_cmd_exec(cmd_code, parameter, length, rx,
                                            drx, 0)} :
                    /\ last' = e.rec
                    /\ data_frame' = e.frame
                    /\ panicked' = e.rec.ub
                    /\ UNCHANGED <<serial, size_t_bits, session>>

-----------------------------------------------------------------------------
(* gt511c3_close, under pta_gt511c3_close_session *)

gt511c3_close(rx) ==
    LET Closed(s) ==
            [NoCall EXCEPT !.op = "close", !.status = s.status,
                           !.sendStatus = s.status, !.tx = s.tx,
                           !.rsp = s.rsp, !.rx = SizeofResponse,
                           !.sessionBefore = session,
                           !.serialBefore = serial]
    IN  Closed(gt511C3_send_cmd(
                   GT511C3_INIT_COMMAND(GT511C3_CMD_CLOSE, U32(0, 0)), rx))

\* pta_gt511c3_close_session: logs the status of gt511c3_close and returns
\* nothing
CloseSession ==
    /\ ~panicked
    /\ last.op = "none"
    /\ \/ /\ NullSerial("close")
          /\ session' = "Closed"
       \/ /\ serial # "NULL"
          /\ \E rx \in RspFrames :
             /\ last' = [gt511c3_close(rx) EXCEPT !.ret = "void"]
             /\ session' = "Closed"
             /\ UNCHANGED <<serial, data_frame, size_t_bits, panicked>>

-----------------------------------------------------------------------------
(* The session model: any sequence of entry-point calls *)

Init ==
    /\ serial = "NULL"
    /\ data_frame = <<>>
    /\ size_t_bits \in {32, 64}
    /\ panicked = FALSE
    /\ session = "Closed"
    /\ last = NoCall

\* the entry point has returned to the TA framework; the callers serialise
\* their calls, so the next call starts only now
Return ==
    /\ ~panicked
    /\ last.op # "none"
    /\ last' = NoCall
    /\ UNCHANGED <<serial, data_frame, size_t_bits, panicked, session>>

Next == Initialize \/ Execute \/ CloseSession \/ Return

Spec == Init /\ [][Next]_vars

-----------------------------------------------------------------------------
(* The response model: gt511C3_recv_response on frames damaged on the line *)

\* frame f with bit b of its byte at index i inverted
FlipBit(f, i, b) ==
    [f EXCEPT ![i] = IF (f[i] \div (2 ^ b)) % 2 = 1 THEN f[i] - 2 ^ b
                     ELSE f[i] + 2 ^ b]

\* well-formed responses the peripheral sends in the response model
LineParams == {U32(0, 0), U32(0, GT511C3_STATUS_DB_IS_EMPTY),
               U32(W16 - 1, W16 - 1), U32(1, 255)}
LineResponses == {ResponseOf("ok", p, k) : p \in LineParams, k \in RspKinds}

\* the peripheral sends a well-formed response; the line delivers it intact
\* or with one bit inverted; gt511C3_recv_response receives it
ReceiveResponse ==
    /\ ~panicked
    /\ last.op = "none"
    /\ \E sent \in LineResponses, i \in 1..SizeofResponse, b \in 0..7,
          intact \in BOOLEAN :
          \E r \in {gt511C3_recv_response(IF intact THEN sent
                                          ELSE FlipBit(sent, i, b))} :
              last' = [NoCall EXCEPT !.op = "recv_response",
                                     !.sentRsp = sent, !.rsp = r.rsp,
                                     !.sendStatus = r.status,
                                     !.status = r.status, !.ret = r.status,
                                     !.rx = SizeofResponse,
                                     !.sessionBefore = session,
                                     !.serialBefore = serial]
    /\ UNCHANGED <<serial, data_frame, size_t_bits, panicked, session>>

NextRsp == ReceiveResponse \/ Return

SpecRsp == Init /\ [][NextRsp]_vars

-----------------------------------------------------------------------------
(* The status model: gt511C3_to_tee on 32-bit status values *)

\* status values: the enumerated codes, their neighbours, and values whose
\* high half is not zero
StatusValues ==
    {U32(hi, lo) : hi \in {0, 1, 4106, W16 - 1},
                   lo \in (0..2) \cup (4094..4118) \cup ((W16 - 3)..(W16 - 1))}

ToTee ==
    /\ ~panicked
    /\ last.op = "none"
    /\ \E status \in StatusValues :
       \E r \in {gt511C3_to_tee(status)} :
          last' = [NoCall EXCEPT !.op = "to_tee", !.arg = status,
                                 !.status = r, !.ret = r]
    /\ UNCHANGED <<serial, data_frame, size_t_bits, panicked, session>>

NextTee == ToTee \/ Return

SpecTee == Init /\ [][NextTee]_vars

-----------------------------------------------------------------------------
(* The command model: one gt511C3_send_cmd exchange *)

\* command codes (the int16_t field keeps the low 16 bits of the code given)
\* and parameters of the command model
CmdCodes == {0, GT511C3_CMD_OPEN, GT511C3_CMD_GET_ENROLL_COUNT,
             GT511C3_CMD_GET_TEMPLATE, 255, 256, 32767, 32768, W16 - 1,
             W16 + GT511C3_CMD_GET_ENROLL_COUNT}
CmdParams == {U32(hi, lo) : hi \in {0, 1, 255, 256, W16 - 1},
                            lo \in {0, 1, 255, 256, W16 - 1}}

\* the well-formed responses of the command model: acknowledge,
\* non-acknowledge and three kinds the protocol does not define
CmdResponseKinds == {GT511C3_RSP_ACK, GT511C3_RSP_NACK, 0, 50, W16 - 1}
CmdResponses ==
    {ResponseOf("ok", p, k) :
        p \in {U32(0, 0), U32(0, GT511C3_STATUS_DB_IS_EMPTY)},
        k \in CmdResponseKinds}

SendCommand ==
    /\ ~panicked
    /\ last.op = "none"
    /\ \E cmd_code \in CmdCodes, parameter \in CmdParams,
          rx \in CmdResponses :
       \E s \in {gt511C3_send_cmd(GT511C3_INIT_COMMAND(cmd_code, parameter),
                                  rx)} :
          last' = [NoCall EXCEPT !.op = "send_cmd",
                                 !.arg = <<cmd_code, parameter>>,
                                 !.tx = s.tx, !.rsp = s.rsp,
                                 !.sendStatus = s.status,
                                 !.status = s.status, !.ret = s.status,
                                 !.rx = SizeofResponse]
    /\ UNCHANGED <<serial, data_frame, size_t_bits, panicked, session>>

NextCmd == SendCommand \/ Return

SpecCmd == Init /\ [][NextCmd]_vars

-----------------------------------------------------------------------------
(* The checksum model: gt511C3_checksum on two byte sequences and on their
   concatenation *)

\* lengths and contents of the byte sequences: all bytes 0xFF or 0x80, or the
\* ramp 1, 2, 3, ...; MaxPieceLen bytes of 0xFF overflow the accumulator
PieceLens == {0, 1, 2, 129, MaxPieceLen}
Pieces ==
    {[i \in 1..n |-> 255] : n \in PieceLens}
    \cup {[i \in 1..n |-> 128] : n \in PieceLens}
    \cup {[i \in 1..n |-> i % 256] : n \in PieceLens}

Checksum ==
    /\ ~panicked
    /\ last.op = "none"
    /\ \E a \in Pieces, b \in Pieces :
          last' = [NoCall EXCEPT !.op = "checksum", !.arg = <<a, b>>,
                                 !.out = <<gt511C3_checksum(a, Len(a)),
                                           gt511C3_checksum(b, Len(b)),
                                           gt511C3_checksum(a \o b,
                                                            Len(a) + Len(b))>>]
    /\ UNCHANGED <<serial, data_frame, size_t_bits, panicked, session>>

NextSum == Checksum \/ Return

SpecSum == Init /\ [][NextSum]_vars

-----------------------------------------------------------------------------
(* The receive-loop model: the for loop of gt511C3_recv, one iteration per
   step.  last.arg is *length, last.out is <<i, number of getchar calls>>;
   the bytes themselves are left out. *)

\* *length on entry: frame sizes the guard of gt511C3_recv_data admits
RecvLengths == {6, SizeofResponse, GT511C3_MAX_PAYLOAD - 1,
                GT511C3_MAX_PAYLOAD}

\* gt511C3_recv is entered
RecvEnter ==
    /\ ~panicked
    /\ last.op = "none"
    /\ \E length \in RecvLengths :
          last' = [NoCall EXCEPT !.op = "recv", !.arg = length,
                                 !.out = <<0, 0>>]
    /\ UNCHANGED <<serial, data_frame, size_t_bits, panicked, session>>

\* i < *length: msg[i] = getchar(); ++i, with i a uint16_t.  The count of
\* getchar calls is kept up to one more than *length.
RecvLoop ==
    /\ last.op = "recv" /\ last.status = "NONE"
    /\ last.out[1] < last.arg
    /\ last' = [last EXCEPT !.out = <<(last.out[1] + 1) % W16,
                                      IF last.out[2] > last.arg
                                      THEN last.out[2]
                                      ELSE last.out[2] + 1>>,
                            !.rx = IF last.out[2] > last.arg
                                   THEN last.out[2] ELSE last.out[2] + 1]
    /\ UNCHANGED <<serial, data_frame, size_t_bits, panicked, session>>

\* i >= *length: the loop is left, the checksums are compared
RecvLeave ==
    /\ last.op = "recv" /\ last.status = "NONE"
    /\ last.out[1] >= last.arg
    /\ \E st \in {TEE_SUCCESS, TEE_ERROR_COMMUNICATION} :
          last' = [last EXCEPT !.status = st, !.ret = st]
    /\ UNCHANGED <<serial, data_frame, size_t_bits, panicked, session>>

\* gt511C3_recv has returned
RecvReturn ==
    /\ last.op = "recv" /\ last.status # "NONE"
    /\ last' = NoCall
    /\ UNCHANGED <<serial, data_frame, size_t_bits, panicked, session>>

NextRecv == RecvEnter \/ RecvLoop \/ RecvLeave \/ RecvReturn

SpecRecv == Init /\ [][NextRecv]_vars

-----------------------------------------------------------------------------
(* The exchange model: gt511C3_send_cmd one transport call per step.
   last.arg is <<the command frame with its checksum, the bytes the
   peripheral answers>>, last.tx the bytes handed to putc so far, last.rsp
   the bytes getchar returned so far, last.out the transport calls in the
   order they were made. *)

\* the faulty loop condition i < sizeof(gt511C3_command) - 1
PutsPending_short(i) == i < SizeofCommand - 1

\* for (i = 0; i < sizeof(gt511C3_command); ++i)
PutsPending(i) == i < SizeofCommand

ExchangeCommands ==
    {GT511C3_INIT_COMMAND(c, p) :
        c \in {GT511C3_CMD_OPEN, GT511C3_CMD_GET_TEMPLATE},
        p \in {U32(0, 0), U32(W16 - 1, 258)}}
ExchangeResponses ==
    {ResponseOf("ok", U32(0, 7), GT511C3_RSP_ACK),
     ResponseOf("ok", U32(0, GT511C3_STATUS_DB_IS_EMPTY), GT511C3_RSP_NACK),
     ResponseOf("badcs", U32(0, 0), GT511C3_RSP_ACK)}

\* gt511C3_send_cmd is entered and fills in cmd->checksum
ExchangeEnter ==
    /\ ~panicked
    /\ last.op = "none"
    /\ \E cmd \in ExchangeCommands, rx \in ExchangeResponses :
          last' = [NoCall EXCEPT !.op = "exchange",
                                 !.arg = <<CommandBytes(cmd), rx>>]
    /\ UNCHANGED <<serial, data_frame, size_t_bits, panicked, session>>

\* serial->ops->putc(serial, payload[i])
PutByte ==
    /\ last.op = "exchange" /\ last.status = "NONE"
    /\ PutsPending(Len(last.tx))
    /\ last' = [last EXCEPT !.tx = Append(last.tx,
                                          last.arg[1][Len(last.tx) + 1]),
                            !.out = Append(last.out, "putc")]
    /\ UNCHANGED <<serial, data_frame, size_t_bits, panicked, session>>

\* gt511C3_recv_response, gt511C3_recv: msg[i] = getchar()
GetByte ==
    /\ last.op = "exchange" /\ last.status = "NONE"
    /\ ~PutsPending(Len(last.tx))
    /\ Len(last.rsp) < SizeofResponse
    /\ last' = [last EXCEPT !.rsp = Append(last.rsp,
                                           last.arg[2][Len(last.rsp) + 1]),
                            !.rx = Len(last.rsp) + 1,
                            !.out = Append(last.out, "getchar")]
    /\ UNCHANGED <<serial, data_frame, size_t_bits, panicked, session>>

\* the response is complete: it is checked and gt511C3_send_cmd returns
ExchangeLeave ==
    /\ last.op = "exchange" /\ last.status = "NONE"
    /\ ~PutsPending(Len(last.tx))
    /\ Len(last.rsp) = SizeofResponse
    /\ \E r \in {gt511C3_recv_response(last.rsp)} :
          last' = [last EXCEPT !.status = r.status, !.sendStatus = r.status,
                               !.ret = r.status]
    /\ UNCHANGED <<serial, data_frame, size_t_bits, panicked, session>>

ExchangeReturn ==
    /\ last.op = "exchange" /\ last.status # "NONE"
    /\ last' = NoCall
    /\ UNCHANGED <<serial, data_frame, size_t_bits, panicked, session>>

NextIO == ExchangeEnter \/ PutByte \/ GetByte \/ ExchangeLeave
            \/ ExchangeReturn

SpecIO == Init /\ [][NextIO]_vars

(* The data model: gt511C3_recv_data, called again and again on the one
   static data_frame, each call next to the same call on another stale
   buffer.  last.arg = <<bytes delivered, the other stale buffer>>,
   last.status/data/ub the outcome, last.out = <<status, data, ub>> of the
   same call on the other stale buffer. *)

\* 260 bytes a reception of 254 payload bytes can leave in data_frame: the
\* data start codes and device id, then 256 bytes 0xFF; they add up to 2^16
ZeroSumFrame ==
    <<GT511C3_DATA_START_CODE1, GT511C3_DATA_START_CODE2>> \o U16Bytes(1)
        \o [i \in 1..256 |-> 255]

\* payload lengths asked for: none, a short one, the one that receives
\* ZeroSumFrame, the first that exceeds the buffer, two within 6 of 2^32
DataLens == {U32(0, 0), U32(0, MaxPayloadLen),
             U32(0, Len(ZeroSumFrame) - 6),
             U32(0, GT511C3_MAX_PAYLOAD - 5),
             U32(W16 - 1, W16 - 6), U32(W16 - 1, W16 - 1)}

\* the n bytes the transport delivers
DataInputs(n) ==
    DataFrames(n) \cup (IF n = Len(ZeroSumFrame) THEN {ZeroSumFrame} ELSE {})

\* contents of data_frame left by earlier receptions
StaleFrames == {<<>>, ZeroSumFrame}

ReceiveData ==
    /\ ~panicked
    /\ last.op = "none"
    /\ \E length \in DataLens, other \in StaleFrames :
       \E rx \in DataInputs(RecvBytes(length, size_t_bits)) :
       \E r \in {gt511C3_recv_data(data_frame, CallerBuf(length), length,
                                   size_t_bits, rx, 0)},
          o \in {gt511C3_recv_data(other, CallerBuf(length), length,
                                   size_t_bits, rx, 0)} :
          /\ last' = [NoCall EXCEPT !.op = "recv_data", !.length = length,
                                    !.arg = <<rx, other>>,
                                    !.status = r.status, !.ret = r.status,
                                    !.data = r.data, !.dataRead = TRUE,
                                    !.rx = r.rx, !.ub = r.ub,
                                    !.out = <<o.status, o.data, o.ub>>]
          /\ data_frame' = r.frame
          /\ panicked' = r.ub
    /\ UNCHANGED <<serial, size_t_bits, session>>

NextData == ReceiveData \/ Return

SpecData == Init /\ [][NextData]_vars

-----------------------------------------------------------------------------
-----------------------------------------------------------------------------
(* What the last call received, read off the record *)

\* the call reached gt511C3_send_cmd and received a response frame
SentCommand == last.sendStatus # "NONE"

\* the response frame's stored checksum is the sum of its first ten bytes
RspChecksumOk == ReadU16(last.rsp, 10) = WireSum(SubSeq(last.rsp, 1, 10))

\* the response frame starts with 0x55, 0xAA
RspMarkersOk == last.rsp[1] = 85 /\ last.rsp[2] = 170

RspKind == ReadU16(last.rsp, 8)
RspParameter == ReadU32(last.rsp, 4)

\* a well-formed acknowledge / non-acknowledge came back
RspAck == SentCommand /\ RspChecksumOk /\ RspMarkersOk /\ RspKind = 48
RspNack == SentCommand /\ RspChecksumOk /\ RspMarkersOk /\ RspKind = 49

\* bytes of a data frame were received by the call (after the 12 of the
\* response), and they are now the head of data_frame
DataReceived == last.dataRead /\ last.rx > SizeofResponse
DataBytes == last.rx - SizeofResponse

\* the received data frame starts with 0x5A, 0xA5
DataMarkersOk ==
    At(data_frame, 0, GT511C3_MAX_PAYLOAD, 0) = 90
    /\ At(data_frame, 1, GT511C3_MAX_PAYLOAD, 0) = 165

\* the data frame's trailing checksum is the sum of the bytes before it
DataChecksumOk ==
    /\ DataBytes >= 2
    /\ ReadU16(data_frame, DataBytes - 2)
         = WireSum(SubSeq(data_frame, 1, DataBytes - 2))

\* 4 + length + 2 > 65536, in unbounded arithmetic
FrameTooLarge(length) ==
    Hi(length) > 0 \/ Lo(length) + 6 > GT511C3_MAX_PAYLOAD

\* the generic kind the specification names for a start-marker mismatch
ProtocolError == "ProtocolError"

-----------------------------------------------------------------------------
(* Claims *)

\* C1 (as claimed): a response that passes the checksum and start-marker
\* checks and whose kind is non-acknowledge makes gt511C3_send_cmd, and the
\* open, execute or close that issued it, fail, whatever its parameter.
C1_NackNeverSuccess ==
    RspNack => (last.sendStatus # TEE_SUCCESS /\ last.status # TEE_SUCCESS)

\* C2 (as claimed): an execute invoked while the session is Closed returns
\* BadState and neither transmits nor reads a byte.
C2_ExecWhenClosedIsBadState ==
    (last.op = "exec" /\ last.typesOk /\ last.sessionBefore = "Closed")
        => (last.status = TEE_ERROR_BAD_STATE /\ ~last.ub
            /\ Len(last.tx) = 0 /\ last.rx = 0)

\* C3 (as claimed): after an open that failed, at whatever step, the
\* transport handle `serial` is not left set.
C3_FailedOpenLeavesNoHandle ==
    (last.op = "open" /\ last.status # TEE_SUCCESS) => serial = "NULL"

\* C4 (as claimed): close is performed only from Open; afterwards the session
\* is Closed (the handle is released) whatever the device answered, and an
\* error of the CLOSE exchange is returned to the caller.
C4_CloseClosesAndSurfacesError ==
    last.op = "close"
        => /\ last.sessionBefore = "Open"
           /\ session = "Closed" /\ serial = "NULL"
           /\ (SentCommand /\ ~RspAck) => (last.status # TEE_SUCCESS
                                           /\ last.ret = last.status)

\* C5 (as claimed): an acknowledged execute with no output buffer (length 0)
\* returns success after reading exactly the 12 response bytes.
C5_NoBufferNoDataRead ==
    (last.op = "exec" /\ RspAck /\ last.length = U32(0, 0))
        => (last.status = TEE_SUCCESS /\ ~last.dataRead
            /\ last.rx = SizeofResponse)

\* C6 (as claimed): when the command exchange of an open or execute fails
\* (non-acknowledge, checksum mismatch, bad start markers) the call returns
\* that error having read exactly 12 bytes and no data frame; a
\* non-acknowledge with status DB_IS_EMPTY gives NoData.
C6_SendFailureStopsTheCall ==
    (last.op \in {"open", "exec"} /\ SentCommand /\ ~RspAck)
        => /\ last.status # TEE_SUCCESS
           /\ last.status = last.sendStatus
           /\ ~last.dataRead /\ last.rx = SizeofResponse
           /\ (RspNack /\ RspParameter = U32(0, GT511C3_STATUS_DB_IS_EMPTY))
                => last.status = TEE_ERROR_NO_DATA

\* C7 (as claimed): open reads a data frame if and only if device info was
\* requested and OPEN was acknowledged; the OPEN parameter is 1 with info and
\* 0 without; acknowledged without info it returns success, Open, 12 bytes
\* read; acknowledged with info and a valid data frame it returns success
\* with the info buffer holding the frame's SizeofDeviceInfo payload bytes.
C7_OpenReadsInfoIffRequestedAndAcked ==
    (last.op = "open" /\ SentCommand)
        => /\ last.dataRead <=> (last.want_info /\ RspAck)
           /\ ReadU32(last.tx, 4) = U32(0, IF last.want_info THEN 1 ELSE 0)
           /\ (RspAck /\ ~last.want_info)
                => (last.status = TEE_SUCCESS /\ session = "Open"
                    /\ last.rx = SizeofResponse)
           /\ (RspAck /\ last.want_info /\ DataMarkersOk /\ DataChecksumOk)
                => (last.status = TEE_SUCCESS /\ session = "Open"
                    /\ last.data = SubSeq(data_frame, 5, 4 + SizeofDeviceInfo))

\* a well-formed response frame: start markers 0x55,0xAA and a trailing
\* checksum equal to the 16-bit sum of the ten bytes before it
WellFormedResponse(f) ==
    /\ Len(f) = SizeofResponse
    /\ f[1] = 85 /\ f[2] = 170
    /\ ReadU16(f, 10) = WireSum(SubSeq(f, 1, 10))

\* g is f with exactly one bit of one byte inverted
OneBitApart(f, g) ==
    /\ Len(g) = Len(f)
    /\ \E i \in 1..Len(f) :
          /\ \A j \in 1..Len(f) : j # i => g[j] = f[j]
          /\ \E b \in 0..7 : g[i] = FlipBit(f, i, b)[i]

\* C8: gt511C3_recv_response on a well-formed 12-byte response frame with a
\* single bit of any one byte inverted fails with CommunicationError.
C8_SingleBitFlipDetected ==
    (last.op = "recv_response" /\ WellFormedResponse(last.sentRsp)
     /\ OneBitApart(last.sentRsp, last.rsp))
        => last.status = TEE_ERROR_COMMUNICATION

\* C8 witness: a well-formed non-acknowledge carrying DB_IS_EMPTY arrived
\* with one bit of its stored checksum inverted and was rejected
C8_Witness ==
    /\ last.op = "recv_response" /\ WellFormedResponse(last.sentRsp)
    /\ OneBitApart(last.sentRsp, last.rsp)
    /\ ReadU16(last.sentRsp, 8) = 49
    /\ ReadU32(last.sentRsp, 4) = U32(0, GT511C3_STATUS_DB_IS_EMPTY)
    /\ last.rsp[12] # last.sentRsp[12]
    /\ last.status = TEE_ERROR_COMMUNICATION

\* C9 (as claimed): a received response frame not starting 0x55,0xAA, and a
\* received data frame not starting 0x5A,0xA5, is rejected with ProtocolError.
C9_BadMarkersAreProtocolErrors ==
    /\ (SentCommand /\ ~RspMarkersOk)
         => (last.sendStatus = ProtocolError /\ last.status = ProtocolError)
    /\ (DataReceived /\ ~DataMarkersOk) => last.status = ProtocolError

\* C9 (amended): a received response frame not starting 0x55,0xAA, and a
\* received data frame not starting 0x5A,0xA5, is rejected with
\* CommunicationError, the kind a checksum mismatch gives, whatever the rest
\* of the frame holds.
C9_BadMarkersAreCommunicationErrors ==
    /\ (SentCommand /\ ~RspMarkersOk)
         => (last.sendStatus = TEE_ERROR_COMMUNICATION
             /\ last.status = TEE_ERROR_COMMUNICATION)
    /\ (DataReceived /\ ~DataMarkersOk)
         => last.status = TEE_ERROR_COMMUNICATION

\* C9 witness: a data frame with a valid checksum and a wrong start marker
\* was received and rejected
C9_Witness ==
    /\ DataReceived /\ DataChecksumOk /\ ~DataMarkersOk
    /\ last.status = TEE_ERROR_COMMUNICATION

\* C10 (as claimed): a data reception whose frame size 4 + length + 2 exceeds
\* 65536 fails with BufferTooSmall before a byte is read or copied, also for
\* lengths near 2^32.
C10_OversizeRejectedBeforeIO ==
    (last.dataRead /\ FrameTooLarge(last.length))
        => (last.status = TEE_ERROR_SHORT_BUFFER /\ ~last.ub
            /\ last.rx = SizeofResponse
            /\ last.data = CallerBuf(last.length))


\* the generic kind the claim gives for an enumerated device status other
\* than success (0x1001 .. 0x1012 and the sentinel 0xFFFF), by name
KindOfStatus(code) ==
    CASE code \in {4097, 4102} -> TEE_ERROR_COMMUNICATION
      [] code \in {4098, 4113} -> TEE_ERROR_BAD_PARAMETERS
      [] code \in {4099, 4100, 4107, 4108, 4109, 4111, 4114}
            -> TEE_ERROR_BAD_STATE
      [] code = 4101 -> TEE_ERROR_BUSY
      [] code \in {4103, 4104} -> TEE_ERROR_ACCESS_DENIED
      [] code = 4105 -> TEE_ERROR_OUT_OF_MEMORY
      [] code = 4106 -> TEE_ERROR_NO_DATA
      [] code = 4110 -> TEE_ERROR_NOT_SUPPORTED
      [] code = 4112 -> TEE_ERROR_CANCEL
      [] code = 65535 -> TEE_ERROR_GENERIC

\* C11: gt511C3_to_tee gives every 32-bit status one kind: each enumerated
\* error code the kind the table names, the sentinel 0xFFFF and every value
\* outside the enumeration Generic.
C11_StatusTranslationTable ==
    last.op = "to_tee"
        => IF Hi(last.arg) = 0 /\ Lo(last.arg) \in (4097..4114) \cup {65535}
           THEN last.status = KindOfStatus(Lo(last.arg))
           ELSE IF last.arg = U32(0, 0) THEN last.status = TEE_SUCCESS
           ELSE last.status = TEE_ERROR_GENERIC

\* C11 witness: a status outside the enumeration whose low half is the code
\* of DB_IS_EMPTY was translated to Generic
C11_Witness ==
    /\ last.op = "to_tee"
    /\ last.arg = U32(1, GT511C3_STATUS_DB_IS_EMPTY)
    /\ last.status = TEE_ERROR_GENERIC


\* C12: the 12 bytes gt511C3_send_cmd transmits are 0x55, 0xAA, device id 1,
\* the parameter, the command code (each little-endian) and the 16-bit sum
\* of these ten bytes, so the frame passes the checksum test of gt511C3_recv.
C12_CommandFrameLayout ==
    last.op = "send_cmd"
        => /\ Len(last.tx) = 12
           /\ last.tx[1] = 85 /\ last.tx[2] = 170
           /\ last.tx[3] = 1 /\ last.tx[4] = 0
           /\ ReadU32(last.tx, 4) = last.arg[2]
           /\ ReadU16(last.tx, 8) = last.arg[1] % W16
           /\ ReadU16(last.tx, 10) = WireSum(SubSeq(last.tx, 1, 10))
           /\ gt511C3_recv(<<>>, SizeofCommand, last.tx, 0).status
                = TEE_SUCCESS

\* C12 witness: the command 0xFFFF with parameter 0xFFFFFFFF was transmitted
\* with checksum 85 + 170 + 1 + 6 * 255
C12_Witness ==
    /\ last.op = "send_cmd"
    /\ last.arg = <<W16 - 1, U32(W16 - 1, W16 - 1)>>
    /\ ReadU16(last.tx, 10) = 1786


\* C13: the checksum of a concatenation is the sum, modulo 2^16, of the
\* checksums of the two parts, each being the 16-bit sum of the bytes taken
\* as unsigned 8-bit values.
C13_ChecksumDistributes ==
    last.op = "checksum"
        => /\ last.out[1] = ByteSum(last.arg[1], 1, Len(last.arg[1]))
           /\ last.out[2] = ByteSum(last.arg[2], 1, Len(last.arg[2]))
           /\ last.out[3] = (last.out[1] + last.out[2]) % W16

\* C13 witness: two parts of 129 bytes 0xFF each, whose checksums add up to
\* more than 2^16, and the accumulator wrapped on their concatenation
C13_Witness ==
    /\ last.op = "checksum"
    /\ Len(last.arg[1]) = 129 /\ Len(last.arg[2]) = 129
    /\ last.arg[1][1] = 255 /\ last.arg[2][1] = 255
    /\ last.out[1] + last.out[2] >= W16
    /\ last.out[3] = 254


\* C14 (as claimed): gt511C3_recv reads exactly *length bytes and returns,
\* for every frame size from 6 up to and including 65536: it never makes
\* more than *length getchar calls, and has made *length when it returns.
C14_ReceiveExactReadsLength ==
    last.op = "recv"
        => /\ last.out[2] <= last.arg
           /\ last.status # "NONE" => last.out[2] = last.arg


\* C15: in a command exchange the bytes handed to the transport are the
\* command frame's bytes in frame order, never more than 12; no byte of the
\* response is read before all 12 are written, no byte is written after a
\* read, and a finished exchange has written exactly 12.
C15_WritesBeforeReads ==
    last.op = "exchange"
        => /\ Len(last.tx) <= 12
           /\ last.tx = SubSeq(last.arg[1], 1, Len(last.tx))
           /\ Len(last.rsp) > 0 => Len(last.tx) = 12
           /\ \A k \in 1..Len(last.out) :
                 last.out[k] = IF k <= 12 THEN "putc" ELSE "getchar"
           /\ last.status # "NONE"
                 => (Len(last.tx) = 12 /\ Len(last.out) = 24)

\* C15 witness: an exchange ended with 12 writes followed by 12 reads of a
\* non-acknowledge
C15_Witness ==
    /\ last.op = "exchange"
    /\ last.status = TEE_ERROR_NO_DATA
    /\ Len(last.out) = 24 /\ last.out[12] = "putc" /\ last.out[13] = "getchar"
    /\ last.tx = last.arg[1] /\ last.rsp = last.arg[2]


\* C16: after a successful receive_data(N) the caller's buffer holds the N
\* bytes at offsets 4 .. 4+N-1 of the frame received in this call, and the
\* outcome is the same whatever data_frame held before the call
C16_PayloadOfThisFrame ==
    (last.op = "recv_data" /\ last.status = TEE_SUCCESS)
        => /\ ~last.ub
           /\ Len(last.arg[1]) = Lo(last.length) + 6
           /\ last.data = SubSeq(last.arg[1], 5, 4 + Lo(last.length))
           /\ last.out = <<last.status, last.data, last.ub>>

\* the bytes delivered to the last gt511C3_recv_data carry the data start
\* codes and, in their last two bytes, the sum of the bytes before
DeliveredFrameAccepted ==
    /\ Len(last.arg[1]) >= 6
    /\ last.arg[1][1] = GT511C3_DATA_START_CODE1
    /\ last.arg[1][2] = GT511C3_DATA_START_CODE2
    /\ ReadU16(last.arg[1], Len(last.arg[1]) - 2)
         = ByteSum(last.arg[1], 1, Len(last.arg[1]) - 2)

\* C20: whenever receive_data returns an error the caller's buffer is as it
\* was before the call, and the buffer changes only when the checksum and the
\* start codes of the frame received were accepted
C20_ErrorLeavesBufferUnchanged ==
    last.op = "recv_data"
        => /\ last.status # TEE_SUCCESS => last.data = CallerBuf(last.length)
           /\ last.data # CallerBuf(last.length) => DeliveredFrameAccepted

\* a reception of a non-empty payload with a good checksum and a bad start
\* code has failed, the buffer as before
C20_Witness ==
    /\ last.op = "recv_data"
    /\ last.status = TEE_ERROR_COMMUNICATION
    /\ Lo(last.length) = MaxPayloadLen /\ Hi(last.length) = 0
    /\ last.arg[1] = DataOf("badsc2", MaxPayloadLen, 16)
    /\ last.data = CallerBuf(last.length)
    /\ last.data # <<>>

\* C17: after an acknowledged command issued through execute (and the call
\* came back with success), the caller holds the parameter field of the response: in one of the two values of
\* params[0], or at the head of its buffer
C17_AckParameterReachesCaller ==
    (last.op = "exec" /\ last.typesOk /\ ~last.ub /\ RspAck
        /\ last.status = TEE_SUCCESS)
        => \/ last.out[1] = RspParameter
           \/ last.out[2] = RspParameter
           \/ (Len(last.data) >= 4 /\ ReadU32(last.data, 0) = RspParameter)

\* C18: gt511c3_open with a non-zero UART base initialises the transport
\* exactly once, at 9600 baud, whatever the target baud rate; with a zero
\* UART base it fails with TEE_ERROR_BAD_PARAMETERS and no byte has been
\* transmitted or read
C18_OpenInitialisesOnceAtResetBaud ==
    (last.op = "open" /\ last.typesOk)
        => /\ last.arg[1] # 0 => last.inits = <<9600>>
           /\ last.arg[1] = 0
                => /\ last.status = TEE_ERROR_BAD_PARAMETERS
                   /\ last.inits = <<>>
                   /\ last.tx = <<>> /\ last.rx = 0
                   /\ ~SentCommand /\ ~last.dataRead

\* an open with a target baud rate above 115200 has succeeded after one
\* initialisation at 9600
C18_Witness ==
    /\ last.op = "open" /\ last.typesOk
    /\ last.arg[1] # 0 /\ last.arg[2] > 115200
    /\ last.inits = <<9600>>
    /\ last.status = TEE_SUCCESS

\* C19: gt511C3_send_cmd returns TEE_SUCCESS only when the response kind of
\* the (checksum-valid, marker-valid) response is 0x30
C19_SuccessOnlyOnAck ==
    (last.op = "send_cmd" /\ RspChecksumOk /\ RspMarkersOk
        /\ last.status = TEE_SUCCESS)
        => RspKind = 48
=============================================================================
